---- MODULE Spec2Model ----
(***************************************************************************)
(* Model of frappe/email/doctype/email_account/email_account.py:           *)
(* the Email Account document (save / on_update, run to completion and    *)
(* one database call at a time; on_trash), receive() with get_pop3(),      *)
(* insert_communication() and set_thread(), and notify_unreplied().        *)
(*                                                                         *)
(* The database is the state: acct (tabEmail Account), comms               *)
(* (tabCommunication) and cases (the rows of the append_to doctypes).      *)
(* receive() and notify_unreplied() are loops; their position is kept in   *)
(* rpc / spc so that other operations interleave between iterations.       *)
(***************************************************************************)
EXTENDS Integers, Sequences, FiniteSets, TLC

VARIABLES
    acct,        \* tabEmail Account: name -> row
    comms,       \* tabCommunication: sequence of rows, the name is the index
    cases,       \* rows of the append_to doctypes: sequence, the name is the index
    now,         \* datetime.now(), in minutes
    rpc,         \* receive(): "idle", "loop" (the for loop), "after" (line 118)
    rself,       \* receive(): self, the document receive() was called on
    todo,        \* receive(): number of raw mails of incoming_mails still to process
    exceptions,  \* receive(): the local list `exceptions`; Unbound before line 106
    result,      \* how the last receive() call ended
    log,         \* history of the running receive(): what became of each raw mail
    spc,         \* notify_unreplied(): "idle" or "loop"
    squeue,      \* notify_unreplied(): accounts of the outer loop still to visit
    saved,       \* history of the last save: the name and the rows before it
    saving,      \* the saves in progress: per user, the request and the call stack
    trashed      \* the deleted accounts, and the rows on_trash found

vars == <<acct, comms, cases, now, rpc, rself, todo, exceptions, result, log,
          spc, squeue, saved, saving, trashed>>

recvVars  == <<rpc, rself, todo, exceptions, result, log>>
sweepVars == <<spc, squeue>>

----------------------------------------------------------------------------
(* Bounds *)

MaxComms == 3      \* rows of tabCommunication
MaxCases == 2      \* rows of parent doctypes
MaxBatch == 2      \* raw mails returned by one pop3.get_messages()
MaxTime  == 60     \* the clock stops here
TickStep == 15     \* minutes per clock step

----------------------------------------------------------------------------
(* Email Account rows *)

AccountNames == <<"a1", "a2">>
Accounts == {AccountNames[i] : i \in 1..Len(AccountNames)}

NoType == ""

\* The doctypes that hooks "email_append_to" offer.  What set_thread needs of a
\* doctype is its meta (fields, methods) and when insert() raises
\* DuplicateEntryError:
\*   Lead     email_id field, filled by set_sender; email_id is unique
\*   Issue    subject and sender fields; named after the subject (unique)
\*   Contact  email_id field, filled by set_sender; named after the subject
DocTypes == {"Lead", "Issue", "Contact"}

has_email_id(dt)    == dt \in {"Lead", "Contact"}
has_subject(dt)     == dt \in {"Issue", "Contact"}
has_sender(dt)      == dt \in {"Issue"}
has_set_sender(dt)  == dt \in {"Lead", "Contact"}
unique_email_id(dt) == dt = "Lead"
unique_subject(dt)  == dt \in {"Issue", "Contact"}

DefaultUnrepliedMins == 30

\* An Email Account row: the settings s and the two default flags.
WithDefaults(s, di, do) ==
    [enable_incoming |-> s.enable_incoming,
     pop3_server |-> s.pop3_server,
     append_to |-> s.append_to,
     enable_auto_reply |-> s.enable_auto_reply,
     auto_reply_message |-> s.auto_reply_message,
     notify_if_unreplied |-> s.notify_if_unreplied,
     unreplied_for_mins |-> s.unreplied_for_mins,
     default_incoming |-> di,
     default_outgoing |-> do]

\* A freshly created account: nothing enabled.
BlankSettings ==
    [enable_incoming |-> 0, pop3_server |-> "", append_to |-> NoType,
     enable_auto_reply |-> 0, auto_reply_message |-> "",
     notify_if_unreplied |-> 0, unreplied_for_mins |-> 0]

----------------------------------------------------------------------------
(* Document.save -> on_update -> there_must_be_only_one_default *)

\* frappe.get_all("Email Account", filters={fn: 1})
get_all_accounts(db, fn) ==
    SelectSeq(AccountNames, LAMBDA n : db[n][fn] = 1)

RECURSIVE save(_, _, _)
RECURSIVE clear_defaults(_, _, _, _)

\* The inner loop of there_must_be_only_one_default over the names that
\* get_all returned: every other account is re-read, gets fn = 0 and is saved.
clear_defaults(db, name, fn, list) ==
    IF list = <<>> THEN db
    ELSE IF Head(list) = name
         THEN clear_defaults(db, name, fn, Tail(list))
         ELSE clear_defaults(
                  save(db, Head(list), [db[Head(list)] EXCEPT ![fn] = 0]),
                  name, fn, Tail(list))

\* Mutant: the loop over the two flags stops after default_incoming.
there_must_be_only_one_default_incoming_only(db, name, self) ==
    IF self.default_incoming = 1
    THEN clear_defaults(db, name, "default_incoming",
                        get_all_accounts(db, "default_incoming"))
    ELSE db

there_must_be_only_one_default(db, name, self) ==
    LET db1 == IF self.default_incoming = 1
               THEN clear_defaults(db, name, "default_incoming",
                                   get_all_accounts(db, "default_incoming"))
               ELSE db
    IN  IF self.default_outgoing = 1
        THEN clear_defaults(db1, name, "default_outgoing",
                            get_all_accounts(db1, "default_outgoing"))
        ELSE db1

on_update(db, name, self) == there_must_be_only_one_default(db, name, self)

\* Document.save: the row is written, then on_update runs on the document.
save(db, name, doc) == on_update([db EXCEPT ![name] = doc], name, doc)

\* A user saves account a with the field values doc.
SaveAccount(a, doc) ==
    /\ acct' = save(acct, a, doc)
    /\ saved' = [name |-> a, before |-> acct]
    /\ UNCHANGED <<comms, cases, now, recvVars, sweepVars, saving, trashed>>

----------------------------------------------------------------------------
(* Concurrent saves: the same code, one database call per step *)

\* The users whose requests save an account at the same time.
Users == {"u1", "u2"}

\* Line 52: the flags in the order of the for loop.
Flags == <<"default_incoming", "default_outgoing">>

\* No save requested yet.
NoSave ==
    [state |-> "none", name |-> "", doc |-> WithDefaults(BlankSettings, 0, 0),
     stack |-> <<>>]

\* The frame of one Document.save call: self is `doc` named `name`; pc is the
\* database call the frame makes next ("write" the row, "scan" = get_all of
\* line 54, "get" = get_doc of line 58), fn the index of the flag of the
\* running for loop and list the names of line 54 not yet visited.
Frame(name, doc) ==
    [name |-> name, doc |-> doc, pc |-> "write", fn |-> 1, list |-> <<>>]

RECURSIVE next_flag(_, _)
RECURSIVE next_flag_incoming_only(_, _)

\* Mutant: the for loop of line 52 covers default_incoming only.
next_flag_incoming_only(f, k) ==
    IF k > 1 THEN [f EXCEPT !.pc = "done", !.fn = k, !.list = <<>>]
    ELSE IF f.doc[Flags[k]] = 1
    THEN [f EXCEPT !.pc = "scan", !.fn = k, !.list = <<>>]
    ELSE next_flag_incoming_only(f, k + 1)

\* Lines 52-53: the frame goes on to the first flag, from the k-th on, that
\* self has set; there it calls get_all.  Past the last flag on_update and
\* save return.
next_flag(f, k) ==
    IF k > Len(Flags) THEN [f EXCEPT !.pc = "done", !.fn = k, !.list = <<>>]
    ELSE IF f.doc[Flags[k]] = 1
    THEN [f EXCEPT !.pc = "scan", !.fn = k, !.list = <<>>]
    ELSE next_flag(f, k + 1)

RECURSIVE settle(_)
\* The calls that have nothing left to do return to their callers.
settle(stack) ==
    IF stack # <<>> /\ stack[Len(stack)].pc = "done"
    THEN settle(SubSeq(stack, 1, Len(stack) - 1))
    ELSE stack

\* Lines 54-57: the names get_all returns, without self.
scan_others(db, f) ==
    SelectSeq(get_all_accounts(db, Flags[f.fn]), LAMBDA n : n # f.name)

\* Lines 58-60: the other account as get_doc reads it, with the flag cleared.
get_other(db, f) == [db[Head(f.list)] EXCEPT ![Flags[f.fn]] = 0]

\* One database call of the save whose call stack is `stack`, on the rows db:
\* the rows and the call stack afterwards.
save_step(db, stack) ==
    LET f    == stack[Len(stack)]
        rest == SubSeq(stack, 1, Len(stack) - 1)
    IN  IF f.pc = "write"
        THEN \* Document.save writes the row, then calls on_update
             [db |-> [db EXCEPT ![f.name] = f.doc],
              stack |-> settle(Append(rest, next_flag(f, 1)))]
        ELSE IF f.pc = "scan"
        THEN LET list == scan_others(db, f)
             IN  [db |-> db,
                  stack |-> settle(Append(rest,
                      IF list = <<>> THEN next_flag(f, f.fn + 1)
                      ELSE [f EXCEPT !.pc = "get", !.list = list]))]
        ELSE \* "get": lines 58-61, email_account.save() is the new frame
             [db |-> db,
              stack |-> rest \o
                  <<IF Tail(f.list) = <<>> THEN next_flag(f, f.fn + 1)
                    ELSE [f EXCEPT !.list = Tail(f.list)],
                    Frame(Head(f.list), get_other(db, f))>>]

\* User u asks to save account a with the field values doc.
SaveBegin(u, a, doc) ==
    /\ saving[u].state = "none"
    /\ \A v \in Users : saving[v].name # a
    /\ saving' = [saving EXCEPT ![u] =
           [state |-> "running", name |-> a, doc |-> doc,
            stack |-> <<Frame(a, doc)>>]]
    /\ UNCHANGED <<acct, comms, cases, now, recvVars, sweepVars, saved, trashed>>

\* The save of user u makes its next database call.
SaveStep(u) ==
    /\ saving[u].state = "running"
    /\ LET after == save_step(acct, saving[u].stack)
       IN  /\ acct' = after.db
           /\ saving' = [saving EXCEPT
                  ![u].stack = after.stack,
                  ![u].state = IF after.stack = <<>> THEN "done" ELSE "running"]
    /\ UNCHANGED <<comms, cases, now, recvVars, sweepVars, saved, trashed>>

----------------------------------------------------------------------------
(* Raw mails and the In-Reply-To header *)

Senders  == {"s1", "s2"}
Subjects == {"x", "y"}

\* The name of the i-th row of tabCommunication, as text.
Name(i) == ToString(i)

\* An In-Reply-To header is a sequence of characters; a name counts as one
\* character and "h" stands for any other text.  <<>> is a mail without the
\* header (email.mail.get returns None).
InReplyTos ==
    {<<>>, <<"<", "h", "@", "h", ">">>}
    \cup {<<"<", Name(i), "@", "h", ">">> : i \in 1..MaxComms}
    \cup {<<" ", Name(1), ">">>}

\* The call of insert_communication's collaborators that raises for this raw
\* mail, if it is made: Email(raw), communication.insert,
\* save_attachments_in_doc, frappe.sendmail, communication.notify.
FailPoints == {"none", "Email", "insert", "save_attachments", "sendmail", "notify"}

RawMails ==
    [from_email : Senders, subject : Subjects,
     in_reply_to : InReplyTos, fails : FailPoints]

RECURSIVE lstrip(_, _)
RECURSIVE rstrip(_, _)
lstrip(s, chars) ==
    IF s # <<>> /\ Head(s) \in chars THEN lstrip(Tail(s), chars) ELSE s
rstrip(s, chars) ==
    IF s # <<>> /\ s[Len(s)] \in chars
    THEN rstrip(SubSeq(s, 1, Len(s) - 1), chars) ELSE s

\* str.strip(chars)
strip(s, chars) == rstrip(lstrip(s, chars), chars)

\* c in s
contains(s, c) == \E i \in 1..Len(s) : s[i] = c

\* s.split(c, 1)[0]
split_first(s, c) ==
    IF contains(s, c)
    THEN LET i == CHOOSE i \in 1..Len(s) :
                      s[i] = c /\ \A j \in 1..(i - 1) : s[j] # c
         IN  SubSeq(s, 1, i - 1)
    ELSE s

\* frappe.db.exists("Communication", name)
db_exists(cm, name) == \E i \in 1..Len(cm) : name = <<Name(i)>>

\* The row index that a name of tabCommunication stands for.
row_of(cm, name) == CHOOSE i \in 1..Len(cm) : name = <<Name(i)>>

----------------------------------------------------------------------------
(* set_thread *)

NoParent == [doctype |-> NoType, name |-> 0]

\* frappe.new_doc(self.append_to) with the fields set_thread fills in.
new_parent(dt, email) ==
    [doctype  |-> dt,
     subject  |-> IF has_subject(dt) THEN email.subject ELSE "",
     sender   |-> IF has_sender(dt) THEN email.from_email ELSE "",
     email_id |-> IF has_set_sender(dt) THEN email.from_email ELSE "",
     status   |-> "Open"]

\* parent.insert raises DuplicateEntryError: a row of the doctype already holds
\* the value of one of its unique fields.
is_duplicate(cs, p) ==
    \E k \in 1..Len(cs) :
        /\ cs[k].doctype = p.doctype
        /\ \/ unique_email_id(p.doctype) /\ cs[k].email_id = p.email_id
           \/ unique_subject(p.doctype) /\ cs[k].subject = p.subject

\* Mutant: the parent Communication is not replaced by its own parent.
find_parent_no_reresolve(email, cm) ==
    LET in_reply_to == strip(email.in_reply_to, {" ", "<", ">"})
    IN  IF in_reply_to # <<>> /\ contains(in_reply_to, "@")
           /\ db_exists(cm, split_first(in_reply_to, "@"))
        THEN [doctype |-> "Communication",
              name |-> row_of(cm, split_first(in_reply_to, "@"))]
        ELSE NoParent

\* Mutant: the name is looked up without the test for "@".
find_parent_any_reference(email, cm) ==
    LET in_reply_to == strip(email.in_reply_to, {" ", "<", ">"})
    IN  IF in_reply_to # <<>> /\ db_exists(cm, split_first(in_reply_to, "@"))
        THEN LET i == row_of(cm, split_first(in_reply_to, "@"))
             IN  IF cm[i].reference_name # 0
                 THEN [doctype |-> cm[i].reference_doctype,
                       name |-> cm[i].reference_name]
                 ELSE [doctype |-> "Communication", name |-> i]
        ELSE NoParent

\* Lines 160-171: the parent found through In-Reply-To.
find_parent(email, cm) ==
    LET in_reply_to == strip(email.in_reply_to, {" ", "<", ">"})
    IN  IF in_reply_to # <<>> /\ contains(in_reply_to, "@")
           /\ db_exists(cm, split_first(in_reply_to, "@"))
        THEN LET i == row_of(cm, split_first(in_reply_to, "@"))
             IN  IF cm[i].reference_name # 0
                 THEN [doctype |-> cm[i].reference_doctype,
                       name |-> cm[i].reference_name]
                 ELSE [doctype |-> "Communication", name |-> i]
        ELSE NoParent

\* Mutant: line 204 is missing, is_first is never set.
create_parent_not_first(self, email, cs) ==
    LET p == new_parent(self.append_to, email)
    IN  IF ~is_duplicate(cs, p)
        THEN {[raised |-> "", cases |-> Append(cs, p), is_first |-> FALSE,
               parent |-> [doctype |-> p.doctype, name |-> Len(cs) + 1]]}
        ELSE {[raised |-> "DuplicateEntryError", cases |-> cs,
               is_first |-> FALSE, parent |-> NoParent]}

\* Mutant: the fallback fetches a row of the doctype without the email_id
\* filter.
create_parent_any_row(self, email, cs) ==
    LET p == new_parent(self.append_to, email)
    IN  IF ~is_duplicate(cs, p)
        THEN {[raised |-> "", cases |-> Append(cs, p), is_first |-> TRUE,
               parent |-> [doctype |-> p.doctype, name |-> Len(cs) + 1]]}
        ELSE IF has_email_id(self.append_to)
        THEN {[raised |-> "", cases |-> cs, is_first |-> TRUE,
               parent |-> [doctype |-> self.append_to, name |-> k]]
              : k \in {k \in 1..Len(cs) : cs[k].doctype = self.append_to}}
        ELSE {[raised |-> "DuplicateEntryError", cases |-> cs,
               is_first |-> FALSE, parent |-> NoParent]}

\* Lines 173-204: no parent found, but must be tagged.  The set of outcomes:
\* raised is the exception that leaves set_thread ("" for none), cases the
\* parent rows afterwards.
create_parent(self, email, cs) ==
    LET p == new_parent(self.append_to, email)
    IN  IF ~is_duplicate(cs, p)
        THEN {[raised |-> "", cases |-> Append(cs, p), is_first |-> TRUE,
               parent |-> [doctype |-> p.doctype, name |-> Len(cs) + 1]]}
        ELSE IF has_email_id(self.append_to)
        THEN LET found == {k \in 1..Len(cs) :
                              /\ cs[k].doctype = self.append_to
                              /\ cs[k].email_id = email.from_email}
             IN  IF found = {}
                 THEN {[raised |-> "DoesNotExistError", cases |-> cs,
                        is_first |-> FALSE, parent |-> NoParent]}
                 ELSE {[raised |-> "", cases |-> cs, is_first |-> TRUE,
                        parent |-> [doctype |-> self.append_to, name |-> k]]
                       : k \in found}
        ELSE {[raised |-> "DuplicateEntryError", cases |-> cs,
               is_first |-> FALSE, parent |-> NoParent]}

\* Mutant: is_first is set whenever the account has append_to, parent found
\* or not.
set_thread_always_first(self, email, cm, cs) ==
    LET parent == find_parent(email, cm)
    IN  IF parent = NoParent /\ self.append_to # NoType
        THEN create_parent(self, email, cs)
        ELSE {[raised |-> "", cases |-> cs,
               is_first |-> self.append_to # NoType, parent |-> parent]}

\* Mutant: line 204 is outside the if of line 173.
set_thread_unlinked_first(self, email, cm, cs) ==
    LET parent == find_parent(email, cm)
    IN  IF parent = NoParent /\ self.append_to # NoType
        THEN create_parent(self, email, cs)
        ELSE {[raised |-> "", cases |-> cs, is_first |-> parent = NoParent,
               parent |-> parent]}

\* Lines 158-208: the outcomes of set_thread for the mail `email` on the
\* tables cm and cs.
set_thread(self, email, cm, cs) ==
    LET parent == find_parent(email, cm)
    IN  IF parent = NoParent /\ self.append_to # NoType
        THEN create_parent(self, email, cs)
        ELSE {[raised |-> "", cases |-> cs, is_first |-> FALSE,
               parent |-> parent]}

----------------------------------------------------------------------------
(* insert_communication *)

\* send_auto_reply: the number of mails handed to frappe.sendmail.
send_auto_reply(self) == IF self.auto_reply_message # "" THEN 1 ELSE 0

\* Lines 143-144.
auto_replies(self, is_first) ==
    IF self.enable_auto_reply = 1 /\ is_first THEN send_auto_reply(self) ELSE 0

\* The row communication.insert writes.
new_communication(self, email, st, t) ==
    [sent_or_received |-> "Received",
     sender |-> email.from_email,
     email_account |-> self.name,
     reference_doctype |-> st.parent.doctype,
     reference_name |-> st.parent.name,
     is_first |-> st.is_first,
     creation |-> t,
     unread_notification_sent |-> 0,
     auto_replies |-> auto_replies(self, st.is_first),
     notified |-> 0]

\* The outcomes of insert_communication(raw) on tables cm, cs at time t:
\* raised is the exception that leaves it ("" for none); comms and cases are
\* the tables of the open transaction when it returns or raises.
insert_communication(self, raw, cm, cs, t) ==
    IF raw.fails = "Email"
    THEN {[raised |-> "Email", comms |-> cm, cases |-> cs]}
    ELSE {IF st.raised # ""
          THEN [raised |-> st.raised, comms |-> cm, cases |-> st.cases]
          ELSE IF raw.fails = "insert"
          THEN [raised |-> "insert", comms |-> cm, cases |-> st.cases]
          ELSE LET c == new_communication(self, raw, st, t)
                   written == [raised |-> "", comms |-> Append(cm, c),
                               cases |-> st.cases]
               IN  IF raw.fails = "save_attachments"
                   THEN [written EXCEPT !.raised = "save_attachments"]
                   ELSE IF raw.fails = "sendmail" /\ c.auto_replies > 0
                   THEN [written EXCEPT !.raised = "sendmail"]
                   ELSE IF raw.fails = "notify"
                   THEN [written EXCEPT !.raised = "notify"]
                   ELSE written
          : st \in set_thread(self, raw, cm, cs)}

----------------------------------------------------------------------------
(* receive *)

\* The local `exceptions`: unbound until line 106 assigns it.
Unbound == [bound |-> FALSE, list |-> <<>>]
Bound(l) == [bound |-> TRUE, list |-> l]
NoDoc ==
    [name |-> "", enable_incoming |-> 0, pop3_server |-> "",
     append_to |-> NoType, enable_auto_reply |-> 0, auto_reply_message |-> ""]

\* Mutant: the except branch does not roll back.
after_mail_no_rollback(out, cm, cs) == out

\* Mutant: the rollback undoes the rows of tabCommunication only.
after_mail_keeps_cases(out, cm, cs) ==
    IF out.raised # ""
    THEN [raised |-> out.raised, comms |-> cm, cases |-> out.cases]
    ELSE out

\* Lines 111-116: what the transaction leaves in the tables, rollback after
\* an exception and commit otherwise.
after_mail(out, cm, cs) ==
    IF out.raised # ""
    THEN [raised |-> out.raised, comms |-> cm, cases |-> cs]
    ELSE out

\* The rows of the open transaction that are not in the tables afterwards.
discarded(open, out) ==
    [comms |-> Len(open.comms) - Len(out.comms),
     cases |-> Len(open.cases) - Len(out.cases)]

\* Lines 108-116: the outcomes of one iteration of the for loop on the raw
\* mail `raw`, with tables cm and cs at time t.
receive_mail(self, raw, cm, cs, t) ==
    {LET out == after_mail(open, cm, cs)
     IN  [raised |-> out.raised, comms |-> out.comms, cases |-> out.cases,
          undone |-> discarded(open, out)]
     : open \in insert_communication(self, raw, cm, cs, t)}

\* self as receive() sees it: the row with its name.
account_doc(a) ==
    [name |-> a,
     enable_incoming |-> acct[a].enable_incoming,
     pop3_server |-> acct[a].pop3_server,
     append_to |-> acct[a].append_to,
     enable_auto_reply |-> acct[a].enable_auto_reply,
     auto_reply_message |-> acct[a].auto_reply_message]

\* Mutant: the connection is tried before the host is checked.
get_pop3_connect_first(self, connects) ==
    IF ~connects
    THEN [raised |-> "ConnectionError", attempts |-> 1]
    ELSE IF self.pop3_server = ""
    THEN [raised |-> "ValidationError", attempts |-> 1]
    ELSE [raised |-> "", attempts |-> 1]

\* Lines 77-95: the exception that leaves get_pop3 ("" when it returns the
\* session) and the number of pop3.connect() calls it made; connects tells
\* whether the server accepts the connection.
get_pop3(self, connects) ==
    IF self.pop3_server = ""
    THEN \* line 87: frappe.throw("POP3 Server is required")
         [raised |-> "ValidationError", attempts |-> 0]
    ELSE IF ~connects
    THEN \* lines 92-93: error_proto becomes frappe.throw
         [raised |-> "ConnectionError", attempts |-> 1]
    ELSE [raised |-> "", attempts |-> 1]

\* The history of a receive() that starts now: the table sizes it found, the
\* connection attempts and the number of raw mails fetched.
StartLog(attempts, fetched) ==
    [comms |-> Len(comms), cases |-> Len(cases), mails |-> <<>>,
     undone |-> <<>>, connects |-> attempts, fetched |-> fetched]

\* Lines 99-106 on the account a, which exists.  n is the number of mails the
\* server holds and connects whether pop3.connect succeeds.
ReceiveStart(a, n, connects) ==
    /\ rpc = "idle"
    /\ a \notin trashed.names
    /\ Len(comms) + n <= MaxComms
    /\ rself' = account_doc(a)
    /\ IF acct[a].enable_incoming = 1
       THEN LET pop3 == get_pop3(account_doc(a), connects)
            IN  IF pop3.raised # ""
                THEN \* the exception of get_pop3 leaves receive()
                     /\ rpc' = "idle" /\ result' = pop3.raised
                     /\ todo' = 0 /\ exceptions' = Unbound
                     /\ log' = StartLog(pop3.attempts, 0)
                ELSE \* line 104: pop3.get_messages() returns n raw mails
                     /\ rpc' = IF n = 0 THEN "after" ELSE "loop"
                     /\ result' = "running"
                     /\ todo' = n /\ exceptions' = Bound(<<>>)
                     /\ log' = StartLog(pop3.attempts, n)
       ELSE /\ rpc' = "after" /\ result' = "running"
            /\ todo' = 0 /\ exceptions' = Unbound
            /\ log' = StartLog(0, 0)
    /\ UNCHANGED <<acct, comms, cases, now, sweepVars, saved, saving, trashed>>

\* Lines 107-116: one iteration of the for loop on the raw mail `raw`.
ReceiveMail(raw) ==
    /\ rpc = "loop"
    /\ \E out \in receive_mail(rself, raw, comms, cases, now) :
          /\ Len(out.cases) <= MaxCases
          /\ comms' = out.comms
          /\ cases' = out.cases
          /\ IF out.raised = ""
             THEN /\ exceptions' = exceptions
                  /\ log' = [log EXCEPT !.mails = Append(@, Len(out.comms)),
                                        !.undone = Append(@, out.undone)]
             ELSE \* exceptions.append(frappe.get_traceback())
                  /\ exceptions' = Bound(Append(exceptions.list,
                         [mail |-> Len(log.mails) + 1, error |-> out.raised]))
                  /\ log' = [log EXCEPT !.mails = Append(@, 0),
                                        !.undone = Append(@, out.undone)]
    /\ todo' = todo - 1
    /\ rpc' = IF todo = 1 THEN "after" ELSE "loop"
    /\ UNCHANGED <<acct, now, rself, result, sweepVars, saved, saving, trashed>>

\* Lines 118-119; the locals end with the call.
ReceiveEnd ==
    /\ rpc = "after"
    /\ rpc' = "idle"
    /\ result' = IF ~exceptions.bound THEN "UnboundLocalError"
                 ELSE IF exceptions.list # <<>> THEN "Exception"
                 ELSE "returned"
    /\ exceptions' = Unbound
    /\ UNCHANGED <<acct, comms, cases, now, rself, todo, log, sweepVars, saved, saving, trashed>>

----------------------------------------------------------------------------
(* notify_unreplied *)

\* A dict literal: the pairs are stored in order, a later pair replaces an
\* earlier one with the same key.
dict_of(pairs) ==
    [k \in {pairs[i][1] : i \in 1..Len(pairs)} |->
        LET last == CHOOSE i \in 1..Len(pairs) :
                        /\ pairs[i][1] = k
                        /\ \A j \in (i + 1)..Len(pairs) : pairs[j][1] # k
        IN  pairs[last][2]]

\* One condition of a filters dict on a field value.
holds(x, cond) ==
    IF cond.op = "<" THEN x < cond.value
    ELSE IF cond.op = ">" THEN x > cond.value
    ELSE x = cond.value

\* frappe.get_all("Communication", filters=filters): the matching names.
get_all_comms(cm, filters) ==
    {i \in 1..Len(cm) : \A k \in DOMAIN filters : holds(cm[i][k], filters[k])}

\* (email_account.unreplied_for_mins or 30), in minutes
unreplied_mins(email_account) ==
    IF email_account.unreplied_for_mins # 0
    THEN email_account.unreplied_for_mins ELSE DefaultUnrepliedMins

\* Mutant: of the two "creation" pairs the first is kept.
unreplied_filters_first_creation(email_account, t) ==
    dict_of(<<
        <<"sent_or_received", [op |-> "=", value |-> "Received"]>>,
        <<"reference_doctype", [op |-> "=", value |-> email_account.append_to]>>,
        <<"unread_notification_sent", [op |-> "=", value |-> 0]>>,
        <<"creation", [op |-> "<", value |-> t - unreplied_mins(email_account)]>>
    >>)

\* Lines 261-267: the filters dict as written.
unreplied_filters(email_account, t) ==
    dict_of(<<
        <<"sent_or_received", [op |-> "=", value |-> "Received"]>>,
        <<"reference_doctype", [op |-> "=", value |-> email_account.append_to]>>,
        <<"unread_notification_sent", [op |-> "=", value |-> 0]>>,
        <<"creation", [op |-> "<", value |-> t - unreplied_mins(email_account)]>>,
        <<"creation", [op |-> ">", value |-> t - unreplied_mins(email_account) * 3]>>
    >>)

\* Mutant: db_set is missing.
notify_one_no_flag(comm, cs) ==
    [comm EXCEPT
        !.notified = IF cs[comm.reference_name].status = "Open"
                     THEN @ + 1 ELSE @]

\* Mutant: the flag is set only when the notification was sent.
notify_one_flag_if_open(comm, cs) ==
    IF cs[comm.reference_name].status = "Open"
    THEN [comm EXCEPT !.notified = @ + 1, !.unread_notification_sent = 1]
    ELSE comm

\* Lines 268-277 on one Communication row.
notify_one(comm, cs) ==
    [comm EXCEPT
        !.notified = IF cs[comm.reference_name].status = "Open"
                     THEN @ + 1 ELSE @,
        !.unread_notification_sent = 1]

\* Lines 258-277: the body of the outer loop for one account row.
notify_account(email_account, cm, cs, t) ==
    IF email_account.append_to # NoType
    THEN LET found == get_all_comms(cm, unreplied_filters(email_account, t))
         IN  [i \in 1..Len(cm) |->
                 IF i \in found THEN notify_one(cm[i], cs) ELSE cm[i]]
    ELSE cm

\* Line 256: the accounts of the outer loop.
SweepStart ==
    /\ spc = "idle"
    /\ squeue' = SelectSeq(AccountNames, LAMBDA n :
                     acct[n].enable_incoming = 1 /\ acct[n].notify_if_unreplied = 1)
    /\ spc' = IF squeue' = <<>> THEN "idle" ELSE "loop"
    /\ UNCHANGED <<acct, comms, cases, now, recvVars, saved, saving, trashed>>

\* Lines 257-277: one iteration of the outer loop.
SweepAccount ==
    /\ spc = "loop"
    /\ comms' = notify_account(acct[Head(squeue)], comms, cases, now)
    /\ squeue' = Tail(squeue)
    /\ spc' = IF squeue' = <<>> THEN "idle" ELSE "loop"
    /\ UNCHANGED <<acct, cases, now, recvVars, saved, saving, trashed>>

----------------------------------------------------------------------------
(* on_trash *)

\* No account deleted yet.
NoTrash == [names |-> {}, name |-> "", before |-> <<>>]

\* Mutant: the update has no where clause.
on_trash_no_where(cm, name) ==
    [i \in 1..Len(cm) |-> [cm[i] EXCEPT !.email_account = ""]]

\* Line 235: update tabCommunication set email_account='' where
\* email_account=name.
on_trash(cm, name) ==
    [i \in 1..Len(cm) |->
        IF cm[i].email_account = name
        THEN [cm[i] EXCEPT !.email_account = ""]
        ELSE cm[i]]

\* A user deletes account a: on_trash runs, then the row is gone.  No query
\* of this module returns a row with every field unset, which stands for the
\* missing row.
Trash(a) ==
    /\ a \notin trashed.names
    /\ comms' = on_trash(comms, a)
    /\ acct' = [acct EXCEPT ![a] = WithDefaults(BlankSettings, 0, 0)]
    /\ trashed' = [names |-> trashed.names \cup {a}, name |-> a, before |-> comms]
    /\ UNCHANGED <<cases, now, recvVars, sweepVars, saved, saving>>

----------------------------------------------------------------------------
(* The environment *)

Statuses == {"Open", "Closed"}

\* Time passes.
Tick ==
    /\ now + TickStep <= MaxTime
    /\ now' = now + TickStep
    /\ UNCHANGED <<acct, comms, cases, recvVars, sweepVars, saved, saving, trashed>>

\* A user changes the status of a parent document.
SetStatus(k, st) ==
    /\ k \in 1..Len(cases)
    /\ cases[k].status # st
    /\ cases' = [cases EXCEPT ![k].status = st]
    /\ UNCHANGED <<acct, comms, now, recvVars, sweepVars, saved, saving, trashed>>

----------------------------------------------------------------------------
(* Specifications *)

Setting(incoming, host, dt, reply, message, notify, mins) ==
    [enable_incoming |-> incoming, pop3_server |-> host, append_to |-> dt,
     enable_auto_reply |-> reply, auto_reply_message |-> message,
     notify_if_unreplied |-> notify, unreplied_for_mins |-> mins]

Host == "pop.example.com"

InitRest ==
    /\ comms = <<>>
    /\ cases = <<>>
    /\ now = 0
    /\ rpc = "idle"
    /\ rself = NoDoc
    /\ todo = 0
    /\ exceptions = Unbound
    /\ result = "none"
    /\ log = [comms |-> 0, cases |-> 0, mails |-> <<>>, undone |-> <<>>,
              connects |-> 0, fetched |-> 0]
    /\ spc = "idle"
    /\ squeue = <<>>
    /\ saved = [name |-> "", before |-> acct]
    /\ saving = [u \in Users |-> NoSave]
    /\ trashed = NoTrash

\* Saves of the accounts only.
SaveSettings ==
    {BlankSettings,
     Setting(1, Host, "Lead", 1, "thanks", 1, 0),
     Setting(1, Host, NoType, 0, "", 0, 0)}

InitSave ==
    /\ acct = [a \in Accounts |-> WithDefaults(BlankSettings, 0, 0)]
    /\ InitRest

NextSave ==
    \E a \in Accounts, s \in SaveSettings, di \in {0, 1}, do \in {0, 1} :
        SaveAccount(a, WithDefaults(s, di, do))

SpecSave == InitSave /\ [][NextSave]_vars

\* Two users save the two accounts at the same time, on rows that earlier
\* saves left with at most one default of each kind.
InitRace ==
    /\ acct \in [Accounts ->
           {WithDefaults(BlankSettings, di, do) : di \in {0, 1}, do \in {0, 1}}]
    /\ \A k \in 1..Len(Flags) :
           Cardinality({a \in Accounts : acct[a][Flags[k]] = 1}) <= 1
    /\ InitRest

NextRace ==
    \/ \E u \in Users, a \in Accounts, di \in {0, 1}, do \in {0, 1} :
           SaveBegin(u, a, WithDefaults(BlankSettings, di, do))
    \/ \E u \in Users : SaveStep(u)

SpecRace == InitRace /\ [][NextRace]_vars

\* receive() on accounts that were set up before.
ReceiveSettings ==
    {Setting(0, Host, "Lead", 0, "", 0, 0),
     Setting(1, "", "Lead", 0, "", 0, 0),
     Setting(1, Host, NoType, 1, "thanks", 0, 0),
     Setting(1, Host, "Lead", 1, "thanks", 0, 0),
     Setting(1, Host, "Issue", 1, "", 0, 0),
     Setting(1, Host, "Contact", 0, "thanks", 0, 0)}

\* a1 appends to Lead or Contact (enabled or not, with or without a host);
\* a2 receives and appends to nothing, or to Issue next to a1's Lead.
Init ==
    /\ acct \in [Accounts -> {WithDefaults(s, 0, 0) : s \in ReceiveSettings}]
    /\ acct["a2"].enable_incoming = 1
    /\ acct["a1"].append_to \in {"Lead", "Contact"}
    /\ \/ acct["a2"].append_to = NoType
       \/ acct["a2"].append_to = "Issue"
          /\ acct["a1"].append_to = "Lead" /\ acct["a1"].enable_auto_reply = 1
    /\ InitRest

Next ==
    \/ \E a \in Accounts, n \in 0..MaxBatch, connects \in BOOLEAN :
           ReceiveStart(a, n, connects)
    \/ \E raw \in RawMails : ReceiveMail(raw)
    \/ ReceiveEnd

Spec == Init /\ [][Next]_vars

\* Accounts are deleted while mails arrive on both accounts.
TrashMails ==
    [from_email : {"s1"}, subject : Subjects,
     in_reply_to : {<<>>, <<"<", Name(1), "@", "h", ">">>},
     fails : {"none", "notify"}]

InitTrash ==
    /\ acct \in [Accounts -> {WithDefaults(s, 0, 0) : s \in
           {Setting(1, Host, "Issue", 0, "", 0, 0),
            Setting(1, Host, NoType, 0, "", 0, 0)}}]
    /\ InitRest

NextTrash ==
    \/ \E a \in Accounts, n \in 1..MaxBatch : ReceiveStart(a, n, TRUE)
    \/ \E raw \in TrashMails : ReceiveMail(raw)
    \/ ReceiveEnd
    \/ \E a \in Accounts : Trash(a)

SpecTrash == InitTrash /\ [][NextTrash]_vars

\* notify_unreplied() sweeps while mails arrive, time passes and parent
\* documents are closed and reopened.
SweepSettings ==
    {Setting(1, Host, "Lead", 0, "", 1, 0),
     Setting(1, Host, "Lead", 0, "", 1, TickStep),
     Setting(1, Host, "Issue", 0, "", 1, TickStep),
     Setting(1, Host, "Lead", 0, "", 0, 0)}

\* The mails of the sweep specification: new threads and replies to the
\* first Communication, all processed without error.
SweepMails ==
    [from_email : {"s1"}, subject : {"x"},
     in_reply_to : {<<>>, <<"<", Name(1), "@", "h", ">">>}, fails : {"none"}]

InitSweep ==
    /\ acct \in [Accounts -> {WithDefaults(s, 0, 0) : s \in SweepSettings}]
    /\ acct["a1"].notify_if_unreplied = 1
    /\ acct["a2"].append_to = "Lead"
    /\ acct["a2"].unreplied_for_mins = acct["a2"].notify_if_unreplied * TickStep
    /\ InitRest

NextSweep ==
    \/ ReceiveStart("a1", 1, TRUE)
    \/ \E raw \in SweepMails : ReceiveMail(raw)
    \/ ReceiveEnd
    \/ Tick
    \/ \E k \in 1..MaxCases, st \in Statuses : SetStatus(k, st)
    \/ SweepStart
    \/ SweepAccount

SpecSweep == InitSweep /\ [][NextSweep]_vars

----------------------------------------------------------------------------
(* Properties *)

holders(fn) == {a \in Accounts : acct[a][fn] = 1}

\* C1: after any sequence of saves, each run to completion, at most one
\* account has default_incoming = 1 and at most one has default_outgoing = 1.
C1_OnlyOneDefault ==
    /\ Cardinality(holders("default_incoming")) <= 1
    /\ Cardinality(holders("default_outgoing")) <= 1

\* a2 was saved as default incoming while a1 held that flag, and a1 lost it.
C1_Witness ==
    /\ saved.name = "a2"
    /\ saved.before["a1"].default_incoming = 1
    /\ acct["a2"].default_incoming = 1
    /\ acct["a1"].default_incoming = 0

\* The raw mails of the running (or last) receive() that raised / did not.
failed    == {i \in 1..Len(log.mails) : log.mails[i] = 0}
succeeded == {i \in 1..Len(log.mails) : log.mails[i] # 0}

\* C2: in a receive() that reached its loop, every raw mail that did not fail
\* has its Communication committed, the failed ones leave no row, `exceptions`
\* holds exactly one trace per failed mail, and the call raises the aggregate
\* Exception if and only if some mail failed.
C2_BatchIsolation ==
    /\ exceptions.bound =>
        /\ Len(exceptions.list) = Cardinality(failed)
        /\ \A i \in failed :
               Cardinality({j \in 1..Len(exceptions.list) :
                               exceptions.list[j].mail = i}) = 1
    /\ (exceptions.bound \/ result \in {"returned", "Exception"}) =>
        /\ \A i \in succeeded :
               /\ log.mails[i] \in (log.comms + 1)..Len(comms)
               /\ comms[log.mails[i]].email_account = rself.name
               /\ \A j \in succeeded : j # i => log.mails[j] # log.mails[i]
        /\ Len(comms) = log.comms + Cardinality(succeeded)
    /\ (rpc = "idle" /\ result \in {"returned", "Exception"}) =>
        /\ result = "Exception" <=> failed # {}
        /\ result = "returned" <=> failed = {}

\* The loop over a batch of two is done: the first mail failed after its
\* Communication was inserted, the second is committed.
C2_Witness ==
    /\ rpc = "after"
    /\ Len(log.mails) = 2
    /\ log.mails[1] = 0 /\ log.mails[2] = Len(comms)
    /\ exceptions.list = <<[mail |-> 1, error |-> "notify"]>>

\* The In-Reply-To header of a reply to the mail whose Communication is row i.
reply_to(i) == <<"<", Name(i), "@", "h", ">">>

\* Row i of tabCommunication is linked to a parent case.
has_case(i) == comms[i].reference_doctype \in DocTypes

\* The raw mails with the given In-Reply-To header.
mails_with(header) ==
    [from_email : Senders, subject : Subjects,
     in_reply_to : {header}, fails : FailPoints]

\* The outcomes of the loop iteration that receive() can run next on `raw`.
next_mail(raw) == receive_mail(rself, raw, comms, cases, now)

\* The iteration inserted a Communication; the row it inserted.
inserted(out) == Len(out.comms) = Len(comms) + 1
new_row(out)  == out.comms[Len(out.comms)]

same_reference(c, d) ==
    /\ c.reference_doctype = d.reference_doctype
    /\ c.reference_name = d.reference_name

\* C3: a reply whose In-Reply-To names, before the "@", an existing
\* Communication that has a parent case gives a new Communication with the
\* reference of that Communication and creates no parent case, on every account.
C3_ReplyJoinsCase ==
    rpc = "loop" =>
        \A i \in {j \in 1..Len(comms) : has_case(j)} :
            \A raw \in mails_with(reply_to(i)) :
                \A out \in next_mail(raw) :
                    /\ out.cases = cases
                    /\ raw.fails = "none" => inserted(out)
                    /\ inserted(out) => same_reference(new_row(out), comms[i])

\* On an account without append_to, a reply to a Communication of a case was
\* linked to that case.
C3_Witness ==
    /\ rself.append_to = NoType
    /\ Len(log.mails) > 0
    /\ log.mails[Len(log.mails)] > 1
    /\ comms[log.mails[Len(log.mails)]].reference_doctype \in DocTypes

\* A mail without In-Reply-To created one parent row of the account's
\* append_to doctype and its Communication is linked to it with is_first set.
made_new_case(out) ==
    /\ out.cases = Append(cases, out.cases[Len(out.cases)])
    /\ out.cases[Len(out.cases)].doctype = rself.append_to
    /\ inserted(out)
    /\ new_row(out).reference_doctype = rself.append_to
    /\ new_row(out).reference_name = Len(out.cases)
    /\ new_row(out).is_first

\* C4 as claimed: a mail without In-Reply-To on an account with append_to
\* creates exactly one parent row of that doctype, and its Communication is
\* linked to it with is_first set.
C4_AlwaysNewCase ==
    (rpc = "loop" /\ rself.append_to # NoType) =>
        \A raw \in mails_with(<<>>) :
            raw.fails = "none" =>
                \A out \in next_mail(raw) : made_new_case(out)

\* C4: the same, when inserting the new parent row meets no duplicate-key
\* conflict.
C4_NewCaseUnlessDuplicate ==
    (rpc = "loop" /\ rself.append_to # NoType) =>
        \A raw \in mails_with(<<>>) :
            (/\ raw.fails = "none"
             /\ ~is_duplicate(cases, new_parent(rself.append_to, raw))) =>
                \A out \in next_mail(raw) : made_new_case(out)

\* The only mail of a receive() created a parent row and got is_first.
C4_Witness ==
    /\ Len(log.mails) = 1 /\ log.mails[1] # 0
    /\ Len(cases) = log.cases + 1
    /\ comms[log.mails[1]].is_first
    /\ comms[log.mails[1]].reference_doctype = rself.append_to
    /\ comms[log.mails[1]].reference_name = Len(cases)

\* C5: once a first mail has created a parent case, a mail that replies to a
\* Communication of that case gets no is_first, creates no parent row and is
\* linked to the same case.
C5_SecondMailNotFirst ==
    rpc = "loop" =>
        \A i \in {j \in 1..Len(comms) :
                    /\ has_case(j)
                    /\ \E f \in 1..Len(comms) :
                           /\ comms[f].is_first
                           /\ same_reference(comms[f], comms[j])} :
            \A raw \in mails_with(reply_to(i)) :
                \A out \in next_mail(raw) :
                    inserted(out) =>
                        /\ ~new_row(out).is_first
                        /\ Len(out.cases) = Len(cases)
                        /\ same_reference(new_row(out), comms[i])

\* The first mail created case 1, the second mail of the batch replied into it.
C5_Witness ==
    /\ Len(comms) = 2 /\ Len(cases) = 1 /\ log.mails = <<1, 2>>
    /\ comms[1].is_first /\ ~comms[2].is_first
    /\ same_reference(comms[1], comms[2])
    /\ rself.append_to # NoType

\* C6 as claimed: a parent case that has a Communication with is_first has
\* exactly one such Communication.
C6_OneFirstPerCase ==
    \A i \in 1..Len(comms) :
        (comms[i].is_first /\ has_case(i)) =>
            Cardinality({j \in 1..Len(comms) :
                comms[j].is_first /\ same_reference(comms[j], comms[i])}) = 1

\* The mail is linked to a row of the account's append_to doctype whose
\* email_id is the sender.
linked_to_sender(out, raw) ==
    /\ inserted(out)
    /\ new_row(out).reference_doctype = rself.append_to
    /\ cases[new_row(out).reference_name].doctype = rself.append_to
    /\ cases[new_row(out).reference_name].email_id = raw.from_email

\* The mail failed and nothing of it is kept.
only_failed(out) ==
    out.raised # "" /\ out.comms = comms /\ out.cases = cases

\* C9 as claimed: when inserting the new parent row conflicts and the doctype
\* has an email_id field, the mail is linked to the existing row whose
\* email_id is the sender and no row is added; without an email_id field the
\* mail fails, and only that mail.
C9_FallbackAlwaysLinks ==
    (rpc = "loop" /\ rself.append_to # NoType) =>
        \A raw \in mails_with(<<>>) :
            (/\ raw.fails = "none"
             /\ is_duplicate(cases, new_parent(rself.append_to, raw))) =>
                \A out \in next_mail(raw) :
                    /\ out.cases = cases
                    /\ IF has_email_id(rself.append_to)
                       THEN linked_to_sender(out, raw)
                       ELSE only_failed(out)

\* A row of the doctype whose email_id is the sender exists.
sender_known(dt, raw) ==
    \E k \in 1..Len(cases) :
        cases[k].doctype = dt /\ cases[k].email_id = raw.from_email

\* C9: on a conflict no row is added.  If the doctype has an email_id field
\* and a row with the sender as email_id exists, the mail is linked to such a
\* row; if the doctype has none, or no such row exists, the mail fails, and
\* only that mail.
C9_FallbackLinksKnownSender ==
    (rpc = "loop" /\ rself.append_to # NoType) =>
        \A raw \in mails_with(<<>>) :
            (/\ raw.fails = "none"
             /\ is_duplicate(cases, new_parent(rself.append_to, raw))) =>
                \A out \in next_mail(raw) :
                    /\ out.cases = cases
                    /\ IF has_email_id(rself.append_to)
                          /\ sender_known(rself.append_to, raw)
                       THEN linked_to_sender(out, raw)
                       ELSE only_failed(out)

\* A receive() of one mail on a Lead account added no parent row and linked
\* the mail to an older Lead of the same sender.
C9_Witness ==
    /\ rself.append_to = "Lead"
    /\ Len(log.mails) = 1 /\ log.mails[1] > 1
    /\ Len(cases) = log.cases
    /\ comms[log.mails[1]].is_first
    /\ comms[log.mails[1]].reference_doctype = "Lead"
    /\ cases[comms[log.mails[1]].reference_name].email_id
           = comms[log.mails[1]].sender

\* C10 as claimed: receive() on an account with enable_incoming off changes
\* nothing and returns normally.
C10_DisabledIsNoOp ==
    (rself.name # "" /\ rself.enable_incoming = 0 /\ rpc = "idle") =>
        /\ result = "returned"
        /\ Len(comms) = log.comms
        /\ Len(cases) = log.cases
        /\ log.mails = <<>>

\* The account that the running sweep visits next, and its window T.
swept == acct[Head(squeue)]

\* Row i was notified or marked by this step.
touched(i) ==
    \/ comms'[i].unread_notification_sent # comms[i].unread_notification_sent
    \/ comms'[i].notified # comms[i].notified

C8_NotifiedOnce ==
    [][\A i \in 1..Len(comms) :
          /\ comms'[i].notified <= 1
          /\ comms'[i].unread_notification_sent >= comms[i].unread_notification_sent
          /\ comms[i].unread_notification_sent = 1 =>
                 comms'[i].notified = comms[i].notified
          /\ comms'[i].notified > comms[i].notified =>
                 /\ comms'[i].unread_notification_sent = 1
                 /\ comms'[i].notified = comms[i].notified + 1]_vars

\* Both accounts append to Lead; a Communication was notified, and a sweep
\* over both accounts has run since with the parent still Open.
C8_Witness ==
    /\ acct["a1"].append_to = "Lead" /\ acct["a2"].append_to = "Lead"
    /\ acct["a2"].notify_if_unreplied = 1
    /\ spc = "idle"
    /\ Len(comms) >= 2
    /\ comms[1].notified = 1 /\ comms[1].unread_notification_sent = 1
    /\ cases[comms[1].reference_name].status = "Open"
    /\ comms[2].notified = 1
    /\ comms[2].creation > comms[1].creation

C12_TrashDetaches ==
    [][\A a \in Accounts :
          (a \notin trashed.names /\ a \in trashed'.names) =>
              /\ Len(comms') = Len(comms)
              /\ cases' = cases
              /\ \A i \in 1..Len(comms) :
                     IF comms[i].email_account = a
                     THEN /\ comms'[i].email_account = ""
                          /\ [comms'[i] EXCEPT !.email_account = a] = comms[i]
                     ELSE comms'[i] = comms[i]]_vars

\* An account with a Communication was deleted while the other account had
\* one too: the first is detached, the second still linked.
C12_Witness ==
    /\ trashed.name # ""
    /\ \E i, j \in 1..Len(trashed.before) :
           /\ trashed.before[i].email_account = trashed.name
           /\ comms[i].email_account = ""
           /\ trashed.before[j].email_account \notin {trashed.name, ""}
           /\ comms[j] = trashed.before[j]

\* C13 as claimed: the reference_doctype of every Communication is a parent
\* doctype or empty, never "Communication".
C13_NoEntryParent ==
    \A i \in 1..Len(comms) : comms[i].reference_doctype \in DocTypes \cup {NoType}

\* C14: a loop iteration that ends in the except branch leaves both tables as
\* they were before it, whatever the transaction had inserted (the
\* Communication, a new parent row, or both): the rows of this mail are gone
\* and the rows committed for earlier mails are kept.
C14_RollbackTogether ==
    [][(/\ rpc = "loop"
        /\ Len(log'.mails) = Len(log.mails) + 1
        /\ log'.mails[Len(log'.mails)] = 0) =>
            /\ comms' = comms
            /\ cases' = cases
            /\ \A i \in succeeded : log.mails[i] \in 1..Len(comms')]_vars

\* The first mail of a batch is committed; the second failed after its
\* Communication and a new parent row were inserted, and both were discarded.
C14_Witness ==
    /\ Len(log.mails) = 2
    /\ log.mails[1] # 0 /\ log.mails[2] = 0
    /\ log.undone[2] = [comms |-> 1, cases |-> 1]
    /\ Len(comms) = log.mails[1]
    /\ Len(cases) = log.cases + 1

\* This step is an iteration of the outer loop of notify_unreplied.
sweeping == spc = "loop" /\ squeue' = Tail(squeue)

\* The rows the query of lines 261-267 returns for the account being visited.
candidates ==
    IF swept.append_to # NoType
    THEN get_all_comms(comms, unreplied_filters(swept, now))
    ELSE {}

\* C15: a sweep notifies a candidate if and only if the status of its parent
\* is "Open" at that moment, and sets unread_notification_sent on every
\* candidate; a Communication that was marked without a notification is not
\* notified by any later step.
C15_NotifyIffOpen ==
    [][/\ sweeping =>
            \A i \in candidates :
                /\ comms'[i].unread_notification_sent = 1
                /\ IF cases[comms[i].reference_name].status = "Open"
                   THEN comms'[i].notified = comms[i].notified + 1
                   ELSE comms'[i].notified = comms[i].notified
       /\ \A i \in 1..Len(comms) :
              (comms[i].unread_notification_sent = 1 /\ comms[i].notified = 0) =>
                  /\ comms'[i].notified = 0
                  /\ comms'[i].unread_notification_sent = 1]_vars

\* A sweep visits an account while a Communication of its doctype, inside the
\* window, is marked but was not notified, and its parent is Open again.
C15_Witness ==
    /\ spc = "loop"
    /\ \E i \in 1..Len(comms) :
           /\ comms[i].reference_doctype = swept.append_to
           /\ comms[i].unread_notification_sent = 1
           /\ comms[i].notified = 0
           /\ comms[i].creation > now - 3 * unreplied_mins(swept)
           /\ cases[comms[i].reference_name].status = "Open"

\* C16 as claimed: a Communication has at most one auto reply; it has one
\* only if its account has enable_auto_reply and a non-empty
\* auto_reply_message and the Communication has is_first; a Communication
\* linked to a parent that an earlier Communication already had has none.
C16_AutoReplyOnlyNewCase ==
    \A i \in 1..Len(comms) :
        /\ comms[i].auto_replies <= 1
        /\ comms[i].auto_replies > 0 =>
               /\ acct[comms[i].email_account].enable_auto_reply = 1
               /\ acct[comms[i].email_account].auto_reply_message # ""
               /\ comms[i].is_first
        /\ (\E j \in 1..(i - 1) : has_case(j) /\ same_reference(comms[j], comms[i])) =>
               comms[i].auto_replies = 0

\* The In-Reply-To header names no existing Communication.
unresolved(raw) == \A i \in 1..Len(comms) : raw.in_reply_to # reply_to(i)

\* C17: on an account without append_to, a mail whose In-Reply-To names no
\* existing Communication, and that no call fails for, is inserted with empty
\* reference_doctype and reference_name and without is_first, adds no parent
\* row and raises nothing.
C17_UnlinkedIsValid ==
    (rpc = "loop" /\ rself.append_to = NoType) =>
        \A raw \in RawMails :
            (unresolved(raw) /\ raw.fails = "none") =>
                \A out \in next_mail(raw) :
                    /\ out.raised = ""
                    /\ inserted(out)
                    /\ new_row(out).reference_doctype = NoType
                    /\ new_row(out).reference_name = 0
                    /\ ~new_row(out).is_first
                    /\ out.cases = cases

\* A receive() of one mail on an account without append_to returned normally
\* and left an unlinked Communication.
C17_Witness ==
    /\ rself.append_to = NoType
    /\ rpc = "idle" /\ result = "returned"
    /\ Len(log.mails) = 1 /\ log.mails[1] # 0
    /\ comms[log.mails[1]].reference_doctype = NoType
    /\ comms[log.mails[1]].reference_name = 0
    /\ ~comms[log.mails[1]].is_first
    /\ Len(cases) = log.cases

\* C18: a receive() on an enabled account without pop3_server, or whose
\* connection fails, ends at once with that error: nothing was fetched, no
\* mail processed, no row added, `exceptions` never bound; without
\* pop3_server no connection was attempted.
C18_FailsFast ==
    /\ result \in {"ValidationError", "ConnectionError"} =>
        /\ rpc = "idle"
        /\ log.fetched = 0 /\ log.mails = <<>>
        /\ Len(comms) = log.comms /\ Len(cases) = log.cases
        /\ ~exceptions.bound
    /\ result = "ValidationError" => log.connects = 0
    /\ (rself.enable_incoming = 1 /\ rself.pop3_server = "") =>
        result = "ValidationError"

\* After mails were received on another account, receive() on an account
\* without pop3_server failed.
C18_Witness ==
    /\ result = "ValidationError"
    /\ rself.pop3_server = ""
    /\ Len(comms) > 0

\* C19: a sweep of an account with window T leaves untouched every
\* Communication created at or before now - 3*T.
C19_TooOldNeverSwept ==
    [][sweeping =>
          \A i \in 1..Len(comms) :
              comms[i].creation <= now - 3 * unreplied_mins(swept) =>
                  comms'[i] = comms[i]]_vars

\* Only a1 sweeps.  A Communication older than 3*T is still unmarked, and a
\* newer one of the same doctype was marked by a sweep that passed it over.
C19_Witness ==
    /\ acct["a2"].notify_if_unreplied = 0
    /\ Len(comms) >= 2
    /\ comms[1].reference_doctype = acct["a1"].append_to
    /\ comms[2].reference_doctype = acct["a1"].append_to
    /\ comms[1].creation <= now - 3 * unreplied_mins(acct["a1"])
    /\ comms[1].unread_notification_sent = 0 /\ comms[1].notified = 0
    /\ comms[2].unread_notification_sent = 1

\* An In-Reply-To header that is not empty after the strip, has no "@" and is
\* the name of the first Communication.
no_at == <<" ", Name(1), ">">>

\* C20: a mail whose In-Reply-To has no "@" is processed exactly as the same
\* mail without In-Reply-To, also when a Communication of that name exists:
\* a new parent (or the duplicate fallback) with append_to, unlinked without.
C20_NoAtNoLookup ==
    rpc = "loop" =>
        \A raw \in mails_with(no_at) :
            /\ next_mail(raw) = next_mail([raw EXCEPT !.in_reply_to = <<>>])
            /\ \A out \in next_mail(raw) :
                   inserted(out) =>
                       IF rself.append_to = NoType
                       THEN new_row(out).reference_doctype = NoType
                       ELSE new_row(out).is_first

\* The first Communication exists and has a parent case; the loop of an
\* account without append_to meets a mail whose In-Reply-To is its name
\* without "@", and the iteration leaves the mail unlinked.
C20_Witness ==
    /\ rpc = "loop"
    /\ rself.append_to = NoType
    /\ Len(comms) >= 1 /\ has_case(1)
    /\ \E raw \in mails_with(no_at) :
           /\ raw.fails = "none"
           /\ \A out \in next_mail(raw) :
                  /\ inserted(out)
                  /\ new_row(out).reference_doctype = NoType

====
